---- MODULE Spec2Model ----
(***************************************************************************)
(* Transaction engine and cash-register session lifecycle of the POS       *)
(* backend (server/src/handlers/transactions.ts, cash_register.ts).        *)
(*                                                                         *)
(* Money is held in cents (the numeric(10,2) columns).  A JavaScript       *)
(* number that has not yet been written to a numeric(10,2) column is held  *)
(* in units of 1/10000 cent, which is exact for every product of a cent    *)
(* amount and a two-decimal percentage.  Percentages are held in           *)
(* hundredths of a percent (the numeric(5,2) columns).                     *)
(*                                                                         *)
(* Every handler is an async function: a request runs from one await to    *)
(* the next as one step, and the steps of concurrent requests interleave.  *)
(***************************************************************************)
EXTENDS Integers, Sequences, FiniteSets, TLC

\* ------------------------------------------------------------------ bounds
MaxDate == 2
MaxRegisters == 2
MaxTransactions == 2
MaxReceipt == 2
MaxCartLines == 2
MaxQuantity == 1

Procs == {1, 2}
Dates == 1..MaxDate
ReceiptIds == 1..MaxReceipt

\* ------------------------------------------------------------ nullable SQL
NULL == <<>>
Some(v) == <<v>>
IsNull(x) == x = <<>>

\* ------------------------------------------------------------------- state
VARIABLES
  today,                \* the calendar date new Date() falls on
  cash_registers,       \* cashRegistersTable: sequence of rows, id = index
  transactions,         \* transactionsTable: set of rows
  transaction_items,    \* transactionItemsTable: set of rows
  transactions_id_seq,  \* serial sequence of transactions.id (last value)
  transaction_items_id_seq, \* serial sequence of transaction_items.id
  products,             \* productsTable: id -> row
  product_categories,   \* productCategoriesTable: the ids of its rows
  payment_methods,      \* paymentMethodsTable: id -> row
  automatic_discounts,  \* automaticDiscountsTable: id -> row
  pc,                   \* per request slot: the await it is suspended at
  local                 \* per request slot: the handler's local variables

tables == <<cash_registers, transactions, transaction_items>>
sequences == <<transactions_id_seq, transaction_items_id_seq>>
catalog == <<products, product_categories, payment_methods, automatic_discounts>>
vars == <<today, cash_registers, transactions, transaction_items,
          transactions_id_seq, transaction_items_id_seq,
          products, product_categories, payment_methods, automatic_discounts,
          pc, local>>

RegisterIds == 1..Len(cash_registers)

\* The locals of a request slot that runs no handler.
NoLocal == [op |-> "none", outcome |-> "none"]

Idle(p) == pc[p] = "idle"

\* A handler returns or throws: the response is delivered to the caller.
Finish(p, op, outcome) ==
  /\ pc' = [pc EXCEPT ![p] = "done"]
  /\ local' = [local EXCEPT ![p] = [op |-> op, outcome |-> outcome]]

\* createTransaction throws before its db.transaction block.
Throw(p, input, error) ==
  /\ pc' = [pc EXCEPT ![p] = "done"]
  /\ local' = [local EXCEPT ![p] =
       [op |-> "createTransaction", outcome |-> error, input |-> input]]

\* ---------------------------------------------------------- cash register
\* the duplicate check without its is_closed condition
OpenRegistersForDate_ClosedToo(d) ==
  {i \in RegisterIds : cash_registers[i].date = d}

\* select ... where date = today and is_closed = false
OpenRegistersForDate(d) ==
  {i \in RegisterIds : cash_registers[i].date = d /\ ~cash_registers[i].is_closed}

\* select ... where is_closed = false
ActiveCashRegisters ==
  {i \in RegisterIds : ~cash_registers[i].is_closed}

\* the row openCashRegister inserts
NewCashRegister(d, starting_capital) ==
  [date |-> d,
   starting_capital |-> starting_capital,
   cash_sales_total |-> 0,
   expected_cash |-> starting_capital,
   actual_cash_counted |-> NULL,
   surplus_shortage |-> NULL,
   is_closed |-> FALSE,
   closed_at |-> NULL]

\* openCashRegister up to its first await: the duplicate check.
OpenCashRegister_Select(p, starting_capital) ==
  /\ Idle(p)
  /\ Len(cash_registers) + Cardinality({q \in Procs : pc[q] = "open_insert"}) < MaxRegisters
  /\ IF OpenRegistersForDate(today) # {}
       THEN Finish(p, "open", "AlreadyOpenToday")
       ELSE /\ pc' = [pc EXCEPT ![p] = "open_insert"]
            /\ local' = [local EXCEPT ![p] =
                 [op |-> "open", outcome |-> "none",
                  date |-> today, starting_capital |-> starting_capital]]
  /\ UNCHANGED <<today, tables, sequences, catalog>>

\* openCashRegister after the check: the insert.
OpenCashRegister_Insert(p) ==
  /\ pc[p] = "open_insert"
  /\ cash_registers' = Append(cash_registers,
        NewCashRegister(local[p].date, local[p].starting_capital))
  /\ Finish(p, "open", "ok")
  /\ UNCHANGED <<today, transactions, transaction_items, sequences, catalog>>

\* surplus/shortage as closeCashRegister computes it from the row it read
SurplusShortage(register, actual_cash_counted) ==
  actual_cash_counted - (register.starting_capital + register.cash_sales_total)

\* the row closeCashRegister's update leaves
ClosedRegister(row, register, actual_cash_counted, now) ==
  [row EXCEPT !.actual_cash_counted = Some(actual_cash_counted),
              !.surplus_shortage = Some(SurplusShortage(register, actual_cash_counted)),
              !.is_closed = TRUE,
              !.closed_at = Some(now)]

\* closeCashRegister throws: the error reaches the caller of close(id).
ThrowClose(p, id, error) ==
  /\ pc' = [pc EXCEPT ![p] = "done"]
  /\ local' = [local EXCEPT ![p] = [op |-> "close", outcome |-> error, id |-> id]]

\* closeCashRegister up to its update: read the row, reject missing/closed.
CloseCashRegister_Select(p, id, actual_cash_counted) ==
  /\ Idle(p)
  /\ IF id \notin RegisterIds
       THEN ThrowClose(p, id, "SessionNotFound")
       ELSE IF cash_registers[id].is_closed
         THEN ThrowClose(p, id, "AlreadyClosed")
         ELSE /\ pc' = [pc EXCEPT ![p] = "close_update"]
              /\ local' = [local EXCEPT ![p] =
                   [op |-> "close", outcome |-> "none", id |-> id,
                    actual_cash_counted |-> actual_cash_counted,
                    register |-> cash_registers[id]]]
  /\ UNCHANGED <<today, tables, sequences, catalog>>

\* closeCashRegister's update ... where id = input.id
CloseCashRegister_Update(p) ==
  /\ pc[p] = "close_update"
  /\ cash_registers' = [cash_registers EXCEPT ![local[p].id] =
        ClosedRegister(@, local[p].register, local[p].actual_cash_counted, today)]
  /\ Finish(p, "close", "ok")
  /\ UNCHANGED <<today, transactions, transaction_items, sequences, catalog>>

\* getCurrentCashRegister: select ... where is_closed = false, then
\* result[0] or null; the query has no order, so any open session may come
\* first.
GetCurrentCashRegisterResult ==
  IF ActiveCashRegisters = {} THEN {NULL}
  ELSE {Some(i) : i \in ActiveCashRegisters}

GetCurrentCashRegister(p) ==
  /\ Idle(p)
  /\ \E result \in GetCurrentCashRegisterResult :
       /\ pc' = [pc EXCEPT ![p] = "done"]
       /\ local' = [local EXCEPT ![p] =
            [op |-> "getCurrentCashRegister", outcome |-> "ok", result |-> result]]
  /\ UNCHANGED <<today, tables, sequences, catalog>>

\* getDashboardStats, step 4: select id, is_closed ... order by opened_at
\* desc limit 1. opened_at is the time of the session's insert, so for
\* sessions opened one after another the latest is the one of highest id.
CurrentRegisterResult ==
  IF Len(cash_registers) = 0 THEN {} ELSE {Len(cash_registers)}

\* cash_register_status of getDashboardStats
CashRegisterStatus ==
  [is_open |-> \E i \in CurrentRegisterResult : ~cash_registers[i].is_closed,
   current_register_id |->
     IF CurrentRegisterResult = {} THEN NULL ELSE Some(Len(cash_registers))]

GetDashboardStats(p) ==
  /\ Idle(p)
  /\ pc' = [pc EXCEPT ![p] = "done"]
  /\ local' = [local EXCEPT ![p] =
       [op |-> "getDashboardStats", outcome |-> "ok",
        cash_register_status |-> CashRegisterStatus]]
  /\ UNCHANGED <<today, tables, sequences, catalog>>

\* ------------------------------------------------------------- numerics
\* Math.round(num / den) for num >= 0: the nearest integer, a tie going up.
\* The argument is a binary double: when the exact decimal value is a tie
\* the double may lie just below it, and then Math.round goes down.
MathRound(num, den) ==
  IF 2 * (num % den) < den THEN {num \div den}
  ELSE IF 2 * (num % den) > den THEN {(num \div den) + 1}
  ELSE {num \div den, (num \div den) + 1}

\* number.toString() written to a numeric(10,2) column, for v >= 0 in units
\* of 1/10000 cent: PostgreSQL rounds the decimal string to two decimals,
\* half away from zero.  The string is that of a binary double, so an exact
\* half cent reaches PostgreSQL as ...4999 or ...5000(1) and is stored as
\* either neighbour (11.254999999999999 -> 11.25, 10.125 -> 10.13).
Numeric2(v) == MathRound(v, 10000)

Max(a, b) == IF a >= b THEN a ELSE b

\* name.toLowerCase(), on the names the catalog holds
ToLowerCase(name) ==
  CASE name = "Cash" -> "cash"
    [] name = "CASH" -> "cash"
    [] name = "Card" -> "card"
    [] OTHER -> name

\* ----------------------------------------------------- createTransaction
ProductIds == DOMAIN products
PaymentMethodIds == DOMAIN payment_methods
DiscountIds == DOMAIN automatic_discounts

\* the product query without its is_active condition
SelectActiveProduct_IgnoresActive(productId) ==
  {i \in ProductIds : i = productId}

\* select from products where id = productId and is_active = true limit 1
SelectActiveProduct(productId) ==
  {i \in ProductIds : i = productId /\ products[i].is_active}

\* productMap.get(id): the Map keeps the last entry pushed for a key
ProductMapGet(prods, id) ==
  LET idx == {k \in 1..Len(prods) : prods[k].id = id}
  IN prods[CHOOSE k \in idx : \A j \in idx : j <= k]

\* the line details priced at original_price, the product's own discount
\* left out
ItemDetails_OriginalPrice(items, prods) ==
  [k \in 1..Len(items) |->
     LET unitPrice == ProductMapGet(prods, items[k].product_id).original_price
     IN [product_id |-> items[k].product_id,
         quantity |-> items[k].quantity,
         unit_price |-> unitPrice,
         total_price |-> unitPrice * items[k].quantity]]

\* input.items.map(...): the line details, prices in cents
ItemDetails(items, prods) ==
  [k \in 1..Len(items) |->
     LET unitPrice == ProductMapGet(prods, items[k].product_id).price_after_discount
     IN [product_id |-> items[k].product_id,
         quantity |-> items[k].quantity,
         unit_price |-> unitPrice,
         total_price |-> unitPrice * items[k].quantity]]

RECURSIVE SumTotalPrice(_)
SumTotalPrice(details) ==
  IF details = <<>> THEN 0
  ELSE details[1].total_price + SumTotalPrice(Tail(details))

\* A cent amount is an exact double when it is a binary fraction of a unit
\* (a multiple of 0.25); every sum and product of such amounts is exact.
ExactDouble(cents) == cents % 25 = 0

\* Whether the double subtotal (0 + unitPrice * quantity + ...) lies below
\* its decimal value.  It does not when one line of quantity 1 was added to
\* 0, when all prices are exact doubles, or when a double was added to
\* itself; otherwise the rounding of the double operations decides
\* (0.7 + 0.1 is 0.7999999999999999, 0.7 * 3 is 2.0999999999999996).
SubtotalBelow(details) ==
  IF \/ Len(details) = 1 /\ details[1].quantity = 1
     \/ \A k \in 1..Len(details) : ExactDouble(details[k].unit_price)
     \/ Len(details) = 2 /\ details[1].quantity = 1 /\ details[2].quantity = 1
          /\ details[1].unit_price = details[2].unit_price
    THEN {FALSE}
    ELSE {FALSE, TRUE}

\* select from automatic_discounts where is_active and minimum_amount <=
\* subtotal order by discount_percentage desc limit 1 (subtotal in cents;
\* below: the double passed as subtotal.toString() lies below that amount)
SelectActiveDiscounts(subtotal, below) ==
  LET qualifying == {d \in DiscountIds :
                       /\ automatic_discounts[d].is_active
                       /\ IF below
                            THEN automatic_discounts[d].minimum_amount < subtotal
                            ELSE automatic_discounts[d].minimum_amount <= subtotal}
  IN {d \in qualifying : \A e \in qualifying :
        automatic_discounts[e].discount_percentage
          <= automatic_discounts[d].discount_percentage}

\* (subtotal * discountPercentage) / 100, in 1/10000 cent
DiscountAmount(subtotal, discountPercentage) == subtotal * discountPercentage

\* select from payment_methods where id = ... and is_active = true limit 1
SelectActivePaymentMethod(id) ==
  {m \in PaymentMethodIds : m = id /\ payment_methods[m].is_active}

\* Math.round(((subtotal - discountAmount) * chargePercentage) / 100 * 100) / 100,
\* in cents; subtotal in cents, discountAmount in 1/10000 cent
\* (the product is split at the cent so that it stays within 32 bits)
PaymentCharge(subtotal, discountAmount, chargePercentage) ==
  LET net == subtotal * 10000 - discountAmount
      whole == (net \div 10000) * chargePercentage
      rest == (whole % 10000) * 10000 + (net % 10000) * chargePercentage
  IN {(whole \div 10000) + c : c \in MathRound(rest, 100000000)}

\* subtotal - discountAmount + paymentCharge, in 1/10000 cent
FinalTotal(subtotal, discountAmount, paymentCharge) ==
  subtotal * 10000 - discountAmount + paymentCharge * 10000

\* Math.max(0, input.amount_received - finalTotal), null when nothing received
ChangeAmount(amount_received, finalTotal) ==
  IF IsNull(amount_received) THEN NULL
  ELSE Some(Max(0, amount_received[1] * 10000 - finalTotal))

\* the carts of at most MaxCartLines lines over the given product ids
Carts(productIds) ==
  UNION {[1..n -> [product_id : productIds, quantity : 1..MaxQuantity]] :
           n \in 1..MaxCartLines}

CreateTransactionPcs == {"ct_products", "ct_discounts", "ct_payment", "ct_persist"}

\* createTransaction up to its first await: the active register.
CT_SelectRegister(p, input) ==
  /\ Idle(p)
  /\ transactions_id_seq
       + Cardinality({q \in Procs : pc[q] \in CreateTransactionPcs}) < MaxTransactions
  /\ IF ActiveCashRegisters = {}
       THEN Throw(p, input, "NoActiveSession")
       ELSE \E r \in ActiveCashRegisters :
            /\ pc' = [pc EXCEPT ![p] = "ct_products"]
            /\ local' = [local EXCEPT ![p] =
                 [op |-> "createTransaction", outcome |-> "none",
                  input |-> input,
                  activeCashRegister |-> [id |-> r, row |-> cash_registers[r]],
                  products |-> <<>>, read |-> 0]]
  /\ UNCHANGED <<today, tables, sequences, catalog>>

\* One turn of the product loop; after the last turn the length check and
\* the subtotal, which run without a further await.
CT_SelectProduct(p) ==
  /\ pc[p] = "ct_products"
  /\ LET l == local[p]
         items == l.input.items
         n == l.read + 1
     IN /\ n <= Len(items)
        /\ LET found == SelectActiveProduct(items[n].product_id)
               prods == IF found = {} THEN l.products
                        ELSE Append(l.products,
                               [id |-> items[n].product_id,
                                original_price |->
                                  products[items[n].product_id].original_price,
                                price_after_discount |->
                                  products[items[n].product_id].price_after_discount])
           IN IF n < Len(items)
                THEN /\ pc' = pc
                     /\ local' = [local EXCEPT ![p] =
                          [l EXCEPT !.products = prods, !.read = n]]
                ELSE IF Len(prods) # Len(items)
                  THEN Throw(p, l.input, "ProductNotFoundOrInactive")
                  ELSE \E below \in SubtotalBelow(ItemDetails(items, prods)) :
                       /\ pc' = [pc EXCEPT ![p] = "ct_discounts"]
                       /\ local' = [local EXCEPT ![p] =
                            [op |-> l.op, outcome |-> l.outcome, input |-> l.input,
                             activeCashRegister |-> l.activeCashRegister,
                             itemDetails |-> ItemDetails(items, prods),
                             subtotal |-> SumTotalPrice(ItemDetails(items, prods)),
                             subtotalBelow |-> below]]
  /\ UNCHANGED <<today, tables, sequences, catalog>>

\* createTransaction's discount query and discountAmount.
CT_SelectDiscounts(p) ==
  /\ pc[p] = "ct_discounts"
  /\ LET l == local[p]
         activeDiscounts == SelectActiveDiscounts(l.subtotal, l.subtotalBelow)
     IN \/ /\ activeDiscounts = {}
           /\ local' = [local EXCEPT ![p] =
                [op |-> l.op, outcome |-> l.outcome, input |-> l.input,
                 activeCashRegister |-> l.activeCashRegister,
                 itemDetails |-> l.itemDetails, subtotal |-> l.subtotal,
                 discountAmount |-> 0]]
        \/ \E d \in activeDiscounts :
             local' = [local EXCEPT ![p] =
                [op |-> l.op, outcome |-> l.outcome, input |-> l.input,
                 activeCashRegister |-> l.activeCashRegister,
                 itemDetails |-> l.itemDetails, subtotal |-> l.subtotal,
                 discountAmount |->
                   DiscountAmount(l.subtotal, automatic_discounts[d].discount_percentage)]]
  /\ pc' = [pc EXCEPT ![p] = "ct_payment"]
  /\ UNCHANGED <<today, tables, sequences, catalog>>

\* the payment-method check placed after an insert of the transaction row
\* that no db.transaction block protects
CT_PaymentMethodMissing_AfterInsert(p) ==
  /\ Throw(p, local[p].input, "PaymentMethodNotFoundOrInactive")
  /\ transactions' = transactions \cup
       {[id |-> transactions_id_seq + 1,
         receipt_id |-> 1,
         cash_register_id |-> local[p].activeCashRegister.id,
         subtotal |-> local[p].subtotal,
         discount_amount |-> 0,
         payment_charge |-> 0,
         final_total |-> local[p].subtotal,
         payment_method_id |-> local[p].input.payment_method_id,
         amount_received |-> NULL,
         change_amount |-> NULL]}
  /\ transactions_id_seq' = transactions_id_seq + 1
  /\ UNCHANGED <<today, cash_registers, transaction_items,
                 transaction_items_id_seq, catalog>>

\* createTransaction's payment-method query came back empty: it throws.
CT_PaymentMethodMissing(p) ==
  /\ Throw(p, local[p].input, "PaymentMethodNotFoundOrInactive")
  /\ UNCHANGED <<today, tables, sequences, catalog>>

\* createTransaction's payment-method query, the surcharge, the final total
\* and the change.
CT_SelectPaymentMethod(p) ==
  /\ pc[p] = "ct_payment"
  /\ LET l == local[p]
         paymentMethod == SelectActivePaymentMethod(l.input.payment_method_id)
     IN IF paymentMethod = {}
          THEN CT_PaymentMethodMissing(p)
          ELSE \E m \in paymentMethod :
               \E paymentCharge \in PaymentCharge(l.subtotal, l.discountAmount,
                                     payment_methods[m].transaction_charge_percentage) :
               LET finalTotal == FinalTotal(l.subtotal, l.discountAmount, paymentCharge)
               IN /\ pc' = [pc EXCEPT ![p] = "ct_persist"]
                  /\ local' = [local EXCEPT ![p] =
                       [op |-> l.op, outcome |-> l.outcome, input |-> l.input,
                        activeCashRegister |-> l.activeCashRegister,
                        itemDetails |-> l.itemDetails, subtotal |-> l.subtotal,
                        discountAmount |-> l.discountAmount,
                        paymentMethodName |-> payment_methods[m].name,
                        paymentCharge |-> paymentCharge,
                        finalTotal |-> finalTotal,
                        changeAmount |-> ChangeAmount(l.input.amount_received, finalTotal)]]
                  /\ UNCHANGED <<today, tables, sequences, catalog>>

\* The statements of the db.transaction callback, each on the tables as the
\* callback has left them so far: db is [cash_registers, transactions,
\* transaction_items].
TxInsertTransaction(db, row) ==
  [db EXCEPT !.transactions = @ \cup {row}]

TxInsertItems(db, rows) ==
  [db EXCEPT !.transaction_items = @ \cup rows]

\* the session update writing is_closed = false along with the totals
TxUpdateCashRegister_Reopens(db, id, cash_sales_total, expected_cash) ==
  [db EXCEPT !.cash_registers[id] =
     [@ EXCEPT !.cash_sales_total = cash_sales_total,
               !.expected_cash = expected_cash,
               !.is_closed = FALSE]]

\* update cash_registers set cash_sales_total, expected_cash where id = ...
TxUpdateCashRegister(db, id, cash_sales_total, expected_cash) ==
  [db EXCEPT !.cash_registers[id] =
     [@ EXCEPT !.cash_sales_total = cash_sales_total,
               !.expected_cash = expected_cash]]

\* the callback's statements run on db instead of tx: nothing is rolled back
DbTransaction_NoRollback(before, work, threw) == work

\* db.transaction(callback): commit what the callback wrote, or roll all of
\* it back when the callback threw.
DbTransaction(before, work, threw) == IF threw THEN before ELSE work

\* transactions.receipt_id without its unique index
ReceiptIdTaken_NoIndex(receipt_id) == FALSE

\* the unique index on transactions.receipt_id
ReceiptIdTaken(receipt_id) == \E t \in transactions : t.receipt_id = receipt_id

\* the rows of the first n cart lines, ids drawn from the serial sequence
ItemRows(transaction_id, itemDetails, n) ==
  {[id |-> transaction_items_id_seq + k,
    transaction_id |-> transaction_id,
    product_id |-> itemDetails[k].product_id,
    quantity |-> itemDetails[k].quantity,
    unit_price |-> itemDetails[k].unit_price,
    total_price |-> itemDetails[k].total_price] : k \in 1..n}

\* the values the cash branch writes: currentCashSales + finalTotal and
\* startingCapital + newCashSalesTotal, each to a numeric(10,2) column
NewCashSalesTotal(register, finalTotal) ==
  Numeric2(register.cash_sales_total * 10000 + finalTotal)

NewExpectedCash(register, finalTotal) ==
  Numeric2((register.starting_capital + register.cash_sales_total) * 10000 + finalTotal)

\* where a statement of the callback can fail: nowhere, at the transaction
\* insert, at the insert of item number failItem, at the register update
FailPoints == {"none", "transaction", "item", "register"}

\* createTransaction's db.transaction block and its response.  The writes
\* of the block become visible to other requests together, at commit.
CT_Persist(p) ==
  /\ pc[p] = "ct_persist"
  /\ LET l == local[p]
         n == Len(l.itemDetails)
         isCash == ToLowerCase(l.paymentMethodName) = "cash"
         id == transactions_id_seq + 1
     IN \E receiptId \in ReceiptIds, fail \in FailPoints, failItem \in 1..n :
        \E discount_amount \in Numeric2(l.discountAmount),
           final_total \in Numeric2(l.finalTotal),
           cash_sales_total \in NewCashSalesTotal(l.activeCashRegister.row, l.finalTotal),
           expected_cash \in NewExpectedCash(l.activeCashRegister.row, l.finalTotal) :
        \E change_amount \in (IF IsNull(l.changeAmount) THEN {NULL}
                              ELSE {Some(c) : c \in Numeric2(l.changeAmount[1])}) :
        LET row == [id |-> id,
                    receipt_id |-> receiptId,
                    cash_register_id |-> l.activeCashRegister.id,
                    subtotal |-> l.subtotal,
                    discount_amount |-> discount_amount,
                    payment_charge |-> l.paymentCharge,
                    final_total |-> final_total,
                    payment_method_id |-> l.input.payment_method_id,
                    amount_received |-> l.input.amount_received,
                    change_amount |-> change_amount]
            failsAtTransaction == fail = "transaction" \/ ReceiptIdTaken(receiptId)
            failsAtItem == ~failsAtTransaction /\ fail = "item"
            failsAtRegister == ~failsAtTransaction /\ ~failsAtItem
                                 /\ isCash /\ fail = "register"
            threw == failsAtTransaction \/ failsAtItem \/ failsAtRegister
            itemsDone == IF failsAtTransaction THEN 0
                         ELSE IF failsAtItem THEN failItem - 1 ELSE n
            itemsTried == IF failsAtTransaction THEN 0
                          ELSE IF failsAtItem THEN failItem ELSE n
            before == [cash_registers |-> cash_registers,
                       transactions |-> transactions,
                       transaction_items |-> transaction_items]
            w1 == IF failsAtTransaction THEN before ELSE TxInsertTransaction(before, row)
            w2 == TxInsertItems(w1, ItemRows(id, l.itemDetails, itemsDone))
            w3 == IF isCash /\ ~threw
                    THEN TxUpdateCashRegister(w2, l.activeCashRegister.id,
                                              cash_sales_total, expected_cash)
                    ELSE w2
            after == DbTransaction(before, w3, threw)
        IN /\ (fail = "item" => ~failsAtTransaction)
           /\ (fail = "register" => isCash /\ ~failsAtTransaction)
           /\ (fail # "item" => failItem = 1)
           /\ cash_registers' = after.cash_registers
           /\ transactions' = after.transactions
           /\ transaction_items' = after.transaction_items
           /\ transactions_id_seq' = id
           /\ transaction_items_id_seq' = transaction_items_id_seq + itemsTried
           /\ pc' = [pc EXCEPT ![p] = "done"]
           /\ local' = [local EXCEPT ![p] =
                IF threw
                  THEN [op |-> l.op, outcome |-> "PersistenceFailure",
                        input |-> l.input, receiptId |-> receiptId,
                        error |-> IF ReceiptIdTaken(receiptId)
                                    THEN "duplicate key: receipt_id"
                                    ELSE "statement failed"]
                  ELSE [op |-> l.op, outcome |-> "ok", input |-> l.input,
                        transaction |-> row]]
  /\ UNCHANGED <<today, catalog>>

\* ------------------------------------------------- transaction lookups
\* transactions left join transaction_items on transactions.id =
\* transaction_items.transaction_id, over the transactions in ts: one row per
\* matching item, and one row with a null item for a transaction without
\* items.
LeftJoinItems(ts) ==
  UNION {{[transactions |-> t, transaction_items |-> Some(it)] :
            it \in {i \in transaction_items : i.transaction_id = t.id}} : t \in ts}
  \cup {[transactions |-> t, transaction_items |-> NULL] :
          t \in {u \in ts : \A i \in transaction_items : i.transaction_id # u.id}}

\* what both lookups build from the rows of their query: null for no row,
\* else the transaction of a row with the items of all rows that have one
\* (numeric strings parsed back; a null amount stays null)
TransactionWithItems(result) ==
  IF result = {} THEN {NULL}
  ELSE {Some([transaction |-> row.transactions,
              items |-> {r.transaction_items[1] :
                           r \in {q \in result : ~IsNull(q.transaction_items)}}]) :
          row \in result}

\* the lookup joining the items on the product instead of the transaction
GetTransactionByIdResult_JoinsOnProduct(id) ==
  TransactionWithItems(
    {[transactions |-> t, transaction_items |-> Some(it)] :
       t \in {u \in transactions : u.id = id},
       it \in {i \in transaction_items : i.product_id = id}})

\* getTransactionById: ... where transactions.id = id
GetTransactionByIdResult(id) ==
  TransactionWithItems(LeftJoinItems({t \in transactions : t.id = id}))

\* getTransactionByReceiptId: ... where transactions.receipt_id = receiptId
GetTransactionByReceiptIdResult(receiptId) ==
  TransactionWithItems(LeftJoinItems({t \in transactions : t.receipt_id = receiptId}))

GetTransactionById(p, id) ==
  /\ Idle(p)
  /\ \E result \in GetTransactionByIdResult(id) :
       /\ pc' = [pc EXCEPT ![p] = "done"]
       /\ local' = [local EXCEPT ![p] =
            [op |-> "getTransactionById", outcome |-> "ok",
             id |-> id, result |-> result]]
  /\ UNCHANGED <<today, tables, sequences, catalog>>

GetTransactionByReceiptId(p, receiptId) ==
  /\ Idle(p)
  /\ \E result \in GetTransactionByReceiptIdResult(receiptId) :
       /\ pc' = [pc EXCEPT ![p] = "done"]
       /\ local' = [local EXCEPT ![p] =
            [op |-> "getTransactionByReceiptId", outcome |-> "ok",
             receiptId |-> receiptId, result |-> result]]
  /\ UNCHANGED <<today, tables, sequences, catalog>>

\* ---------------------------------------------------------------- catalog
\* deleteProduct: the soft delete of an existing product.
DeleteProduct(id) ==
  /\ id \in ProductIds
  /\ products' = [products EXCEPT ![id].is_active = FALSE]
  /\ UNCHANGED <<today, tables, sequences, payment_methods, automatic_discounts, product_categories,
                 pc, local>>

\* updateProduct with input {id, is_active}.
UpdateProduct(id, is_active) ==
  /\ id \in ProductIds
  /\ products' = [products EXCEPT ![id].is_active = is_active]
  /\ UNCHANGED <<today, tables, sequences, payment_methods, automatic_discounts, product_categories,
                 pc, local>>

\* the price update carried into the item rows of the product's past sales
UpdateProductPrice_RewritesItems(id, original_price) ==
  /\ id \in ProductIds
  /\ \E price_after_discount \in
          Numeric2(original_price * (10000 - products[id].discount_percentage)) :
       /\ products' = [products EXCEPT ![id].original_price = original_price,
                                       ![id].price_after_discount = price_after_discount]
       /\ transaction_items' =
            {IF it.product_id = id
               THEN [it EXCEPT !.unit_price = price_after_discount,
                               !.total_price = price_after_discount * it.quantity]
               ELSE it : it \in transaction_items}
  /\ UNCHANGED <<today, cash_registers, transactions, sequences, payment_methods,
                 automatic_discounts, product_categories,
                 pc, local>>

\* updateProduct with input {id, original_price}: price_after_discount is
\* recalculated as originalPrice * (1 - discountPercentage / 100) and
\* written to its numeric(10,2) column.
UpdateProductPrice(id, original_price) ==
  /\ id \in ProductIds
  /\ \E price_after_discount \in
          Numeric2(original_price * (10000 - products[id].discount_percentage)) :
       products' = [products EXCEPT ![id].original_price = original_price,
                                    ![id].price_after_discount = price_after_discount]
  /\ UNCHANGED <<today, tables, sequences, payment_methods, automatic_discounts, product_categories,
                 pc, local>>

\* updateAutomaticDiscount with input {id, is_active}; an id that matches no
\* rule throws after an update of no row.
UpdateAutomaticDiscount(id, is_active) ==
  /\ automatic_discounts' =
       IF id \in DiscountIds
         THEN [automatic_discounts EXCEPT ![id].is_active = is_active]
         ELSE automatic_discounts
  /\ UNCHANGED <<today, tables, sequences, products, payment_methods, product_categories,
                 pc, local>>

\* deleteAutomaticDiscount: delete ... where id = id
DeleteAutomaticDiscount(id) ==
  /\ automatic_discounts' =
       [d \in DiscountIds \ {id} |-> automatic_discounts[d]]
  /\ UNCHANGED <<today, tables, sequences, products, payment_methods, product_categories,
                 pc, local>>

\* updatePaymentMethod with input {id, is_active}.
UpdatePaymentMethod(id, is_active) ==
  /\ id \in PaymentMethodIds
  /\ payment_methods' = [payment_methods EXCEPT ![id].is_active = is_active]
  /\ UNCHANGED <<today, tables, sequences, products, automatic_discounts, product_categories,
                 pc, local>>

\* deletePaymentMethod: the query for a transaction of the payment method;
\* a row throws.
DeletePaymentMethod_Select(p, id) ==
  /\ Idle(p)
  /\ IF \E t \in transactions : t.payment_method_id = id
       THEN /\ pc' = [pc EXCEPT ![p] = "done"]
            /\ local' = [local EXCEPT ![p] =
                 [op |-> "deletePaymentMethod", outcome |-> "PaymentMethodInUse",
                  id |-> id]]
       ELSE /\ pc' = [pc EXCEPT ![p] = "dpm_delete"]
            /\ local' = [local EXCEPT ![p] =
                 [op |-> "deletePaymentMethod", outcome |-> "none", id |-> id]]
  /\ UNCHANGED <<today, tables, sequences, catalog>>

\* deletePaymentMethod: delete ... where id = id returning; no row throws.
DeletePaymentMethod_Delete(p) ==
  /\ pc[p] = "dpm_delete"
  /\ payment_methods' =
       [m \in PaymentMethodIds \ {local[p].id} |-> payment_methods[m]]
  /\ pc' = [pc EXCEPT ![p] = "done"]
  /\ local' = [local EXCEPT ![p].outcome =
       IF local[p].id \in PaymentMethodIds THEN "ok" ELSE "PaymentMethodNotFound"]
  /\ UNCHANGED <<today, tables, sequences, products, product_categories,
                 automatic_discounts>>

\* --------------------------------------------------------------- products
\* A product_id 'P00n' is held as its number n.
MaxProducts == 3

\* generateProductId: select product_id from products order by id limit 1;
\* 'P001' for an empty table, else the number of that row's product_id + 1.
GenerateProductId ==
  IF Len(products) = 0 THEN 1 ELSE products[1].product_id + 1

\* the unique constraint on products.product_id
ProductIdTaken(productId) ==
  \E i \in ProductIds : products[i].product_id = productId

\* originalPrice * (1 - discountPercentage / 100), as the numeric(10,2)
\* column price_after_discount stores it
PriceAfterDiscount(original_price, discount_percentage) ==
  Numeric2(original_price * (10000 - discount_percentage))

\* createProduct: the category query; an unknown category throws.
CreateProduct_SelectCategory(p, input) ==
  /\ Idle(p)
  /\ Len(products) < MaxProducts
  /\ IF input.category_id \notin product_categories
       THEN /\ pc' = [pc EXCEPT ![p] = "done"]
            /\ local' = [local EXCEPT ![p] =
                 [op |-> "createProduct", outcome |-> "CategoryDoesNotExist",
                  input |-> input]]
       ELSE /\ pc' = [pc EXCEPT ![p] =
                 IF IsNull(input.product_id) THEN "cp_generate" ELSE "cp_insert"]
            /\ local' = [local EXCEPT ![p] =
                 [op |-> "createProduct", outcome |-> "none", input |-> input,
                  id |-> 0,
                  productId |-> IF IsNull(input.product_id) THEN 0
                                ELSE input.product_id[1]]]
  /\ UNCHANGED <<today, tables, sequences, catalog>>

\* createProduct: productId = input.product_id || await generateProductId()
CreateProduct_GenerateProductId(p) ==
  /\ pc[p] = "cp_generate"
  /\ pc' = [pc EXCEPT ![p] = "cp_insert"]
  /\ local' = [local EXCEPT ![p].productId = GenerateProductId]
  /\ UNCHANGED <<today, tables, sequences, catalog>>

\* createProduct: the insert; a product_id already in the table violates
\* the unique constraint and the handler rethrows.
CreateProduct_Insert(p) ==
  /\ pc[p] = "cp_insert"
  /\ LET input == local[p].input
         productId == local[p].productId
     IN IF ProductIdTaken(productId)
          THEN /\ pc' = [pc EXCEPT ![p] = "done"]
               /\ local' = [local EXCEPT ![p].outcome = "duplicate key: product_id"]
               /\ UNCHANGED products
          ELSE \E price_after_discount \in
                    PriceAfterDiscount(input.original_price, input.discount_percentage) :
                 /\ products' = Append(products,
                      [product_id |-> productId,
                       category_id |-> input.category_id,
                       original_price |-> input.original_price,
                       discount_percentage |-> input.discount_percentage,
                       price_after_discount |-> price_after_discount,
                       is_active |-> TRUE])
                 /\ pc' = [pc EXCEPT ![p] = "done"]
                 /\ local' = [local EXCEPT ![p].outcome = "ok",
                                           ![p].id = Len(products) + 1]
  /\ UNCHANGED <<today, tables, sequences, product_categories, payment_methods,
                 automatic_discounts>>

\* updateProduct: getProductById; an unknown id throws.
UpdateProduct_GetProductById(p, input) ==
  /\ Idle(p)
  /\ IF input.id \notin ProductIds
       THEN /\ pc' = [pc EXCEPT ![p] = "done"]
            /\ local' = [local EXCEPT ![p] =
                 [op |-> "updateProduct", outcome |-> "ProductDoesNotExist",
                  input |-> input]]
       ELSE /\ pc' = [pc EXCEPT ![p] =
                 IF IsNull(input.category_id) THEN "up_update" ELSE "up_category"]
            /\ local' = [local EXCEPT ![p] =
                 [op |-> "updateProduct", outcome |-> "none", input |-> input,
                  existingProduct |-> products[input.id]]]
  /\ UNCHANGED <<today, tables, sequences, catalog>>

\* updateProduct: if (input.category_id) the category query; an unknown
\* category throws.
UpdateProduct_SelectCategory(p) ==
  /\ pc[p] = "up_category"
  /\ IF local[p].input.category_id[1] \notin product_categories
       THEN /\ pc' = [pc EXCEPT ![p] = "done"]
            /\ local' = [local EXCEPT ![p].outcome = "CategoryDoesNotExist"]
       ELSE /\ pc' = [pc EXCEPT ![p] = "up_update"]
            /\ UNCHANGED local
  /\ UNCHANGED <<today, tables, sequences, catalog>>

\* the update values without the recalculation of price_after_discount
UpdateValues_NoRecalculation(row, input, existingProduct) ==
  {[row EXCEPT
      !.category_id = IF IsNull(input.category_id) THEN @ ELSE input.category_id[1],
      !.original_price = IF IsNull(input.original_price) THEN @ ELSE input.original_price[1],
      !.discount_percentage = IF IsNull(input.discount_percentage) THEN @
                              ELSE input.discount_percentage[1]]}

\* the update values of updateProduct: the supplied fields, and
\* price_after_discount recalculated when original_price or
\* discount_percentage is supplied, from the supplied value or else the one
\* getProductById read. A set: the column rounds the recalculated price.
UpdateValues(row, input, existingProduct) ==
  LET originalPrice == IF IsNull(input.original_price)
                         THEN existingProduct.original_price
                         ELSE input.original_price[1]
      discountPercentage == IF IsNull(input.discount_percentage)
                              THEN existingProduct.discount_percentage
                              ELSE input.discount_percentage[1]
      supplied == [row EXCEPT
        !.category_id = IF IsNull(input.category_id) THEN @ ELSE input.category_id[1],
        !.original_price = IF IsNull(input.original_price) THEN @ ELSE input.original_price[1],
        !.discount_percentage = IF IsNull(input.discount_percentage) THEN @
                                ELSE input.discount_percentage[1]]
  IN IF IsNull(input.original_price) /\ IsNull(input.discount_percentage)
       THEN {supplied}
       ELSE {[supplied EXCEPT !.price_after_discount = price_after_discount] :
               price_after_discount \in PriceAfterDiscount(originalPrice, discountPercentage)}

\* updateProduct: update products set ... where id = input.id
UpdateProduct_Update(p) ==
  /\ pc[p] = "up_update"
  /\ LET input == local[p].input
     IN \E row \in UpdateValues(products[input.id], input, local[p].existingProduct) :
          products' = [products EXCEPT ![input.id] = row]
  /\ pc' = [pc EXCEPT ![p] = "done"]
  /\ local' = [local EXCEPT ![p].outcome = "ok"]
  /\ UNCHANGED <<today, tables, sequences, product_categories, payment_methods,
                 automatic_discounts>>

\* ----------------------------------------------------- product categories
\* deleteProductCategory: the query for the category; an unknown id throws.
DeleteProductCategory_Select(p, id) ==
  /\ Idle(p)
  /\ IF id \notin product_categories
       THEN /\ pc' = [pc EXCEPT ![p] = "done"]
            /\ local' = [local EXCEPT ![p] =
                 [op |-> "deleteProductCategory", outcome |-> "CategoryNotFound",
                  id |-> id]]
       ELSE /\ pc' = [pc EXCEPT ![p] = "dc_count"]
            /\ local' = [local EXCEPT ![p] =
                 [op |-> "deleteProductCategory", outcome |-> "none", id |-> id]]
  /\ UNCHANGED <<today, tables, sequences, catalog>>

\* select count(*) from products where category_id = id
ProductsInCategory(id) ==
  Cardinality({i \in ProductIds : products[i].category_id = id})

\* deleteProductCategory: the count of the products of the category; a
\* count above 0 throws.
DeleteProductCategory_Count(p) ==
  /\ pc[p] = "dc_count"
  /\ IF ProductsInCategory(local[p].id) > 0
       THEN /\ pc' = [pc EXCEPT ![p] = "done"]
            /\ local' = [local EXCEPT ![p].outcome = "CategoryInUse"]
       ELSE /\ pc' = [pc EXCEPT ![p] = "dc_delete"]
            /\ UNCHANGED local
  /\ UNCHANGED <<today, tables, sequences, catalog>>

\* deleteProductCategory: delete from product_categories where id = id
DeleteProductCategory_Delete(p) ==
  /\ pc[p] = "dc_delete"
  /\ product_categories' = product_categories \ {local[p].id}
  /\ pc' = [pc EXCEPT ![p] = "done"]
  /\ local' = [local EXCEPT ![p].outcome = "ok"]
  /\ UNCHANGED <<today, tables, sequences, products, payment_methods,
                 automatic_discounts>>

\* ------------------------------------------------------------ environment
\* Midnight passes: new Date() now falls on the next calendar date.
AdvanceDate ==
  /\ today < MaxDate
  /\ today' = today + 1
  /\ UNCHANGED <<tables, sequences, catalog, pc, local>>

\* The caller has received the response; the slot takes the next request.
Return(p) ==
  /\ pc[p] = "done"
  /\ pc' = [pc EXCEPT ![p] = "idle"]
  /\ local' = [local EXCEPT ![p] = NoLocal]
  /\ UNCHANGED <<today, tables, sequences, catalog>>

\* ------------------------------------------------------------------- spec
Init ==
  /\ today = 1
  /\ cash_registers = <<>>
  /\ transactions = {}
  /\ transaction_items = {}
  /\ transactions_id_seq = 0
  /\ transaction_items_id_seq = 0
  /\ products = <<[product_id |-> 1, category_id |-> 1, original_price |-> 1250,
                   discount_percentage |-> 1000, price_after_discount |-> 1125,
                   is_active |-> TRUE],
                  [product_id |-> 2, category_id |-> 1, original_price |-> 1000,
                   discount_percentage |-> 0, price_after_discount |-> 1000,
                   is_active |-> TRUE]>>
  /\ product_categories = {1}
  /\ payment_methods =
       <<[name |-> "Cash", transaction_charge_percentage |-> 0, is_active |-> TRUE],
         [name |-> "Card", transaction_charge_percentage |-> 250, is_active |-> TRUE]>>
  /\ automatic_discounts =
       <<[minimum_amount |-> 1000, discount_percentage |-> 1000, is_active |-> TRUE]>>
  /\ pc = [p \in Procs |-> "idle"]
  /\ local = [p \in Procs |-> NoLocal]

\* The requests a slot can run, their inputs drawn from the given sets.
Request(p, capitals, registerIds, counted, inputs) ==
  \/ \E c \in capitals : OpenCashRegister_Select(p, c)
  \/ OpenCashRegister_Insert(p)
  \/ \E id \in registerIds, a \in counted : CloseCashRegister_Select(p, id, a)
  \/ CloseCashRegister_Update(p)
  \/ \E input \in inputs : CT_SelectRegister(p, input)
  \/ CT_SelectProduct(p)
  \/ CT_SelectDiscounts(p)
  \/ CT_SelectPaymentMethod(p)
  \/ CT_Persist(p)
  \/ Return(p)

\* Concurrent requests: sales of the product at 10.00, by cash or by card.
ConcurrentInputs ==
  [items : {<<[product_id |-> 2, quantity |-> 1]>>},
   payment_method_id : {1, 2},
   amount_received : {NULL}]

Next ==
  \/ DeleteProduct(2)
  \/ UpdateProduct(2, TRUE)
  \/ \E p \in Procs : Request(p, {113}, 1..MaxRegisters, {1000}, ConcurrentInputs)

Spec == Init /\ [][Next]_vars

\* One request at a time: slot 1 runs the requests, and the catalog is
\* edited between them.
SerialInputs ==
  [items : Carts({2, 3}),
   payment_method_id : 1..3,
   amount_received : {NULL}]

NextSerial ==
  \/ AdvanceDate
  \/ Idle(1) /\ DeleteProduct(2)
  \/ Idle(1) /\ UpdateProduct(2, TRUE)
  \/ \E a \in BOOLEAN : Idle(1) /\ UpdatePaymentMethod(2, a)
  \/ Request(1, {113}, 1..(MaxRegisters + 1), {1000}, SerialInputs)
  \/ GetCurrentCashRegister(1)
  \/ GetDashboardStats(1)

SpecSerial == Init /\ [][NextSerial]_vars

\* Pricing: one register is open and sales follow one another, over carts of
\* both products (11.25 and 10.00), by cash or card, with or without cash
\* handed over.
InitPricing ==
  /\ today = 1
  /\ cash_registers = <<NewCashRegister(1, 113)>>
  /\ transactions = {}
  /\ transaction_items = {}
  /\ transactions_id_seq = 0
  /\ transaction_items_id_seq = 0
  /\ products = <<[product_id |-> 1, category_id |-> 1, original_price |-> 1250,
                   discount_percentage |-> 1000, price_after_discount |-> 1125,
                   is_active |-> TRUE],
                  [product_id |-> 2, category_id |-> 1, original_price |-> 1000,
                   discount_percentage |-> 0, price_after_discount |-> 1000,
                   is_active |-> TRUE]>>
  /\ product_categories = {1}
  /\ payment_methods =
       <<[name |-> "Cash", transaction_charge_percentage |-> 0, is_active |-> TRUE],
         [name |-> "Card", transaction_charge_percentage |-> 250, is_active |-> TRUE]>>
  /\ automatic_discounts =
       <<[minimum_amount |-> 1000, discount_percentage |-> 1000, is_active |-> TRUE]>>
  /\ pc = [p \in Procs |-> "idle"]
  /\ local = [p \in Procs |-> NoLocal]

PricingInputs ==
  [items : Carts({1, 2}),
   payment_method_id : {1, 2},
   amount_received : {NULL, Some(2000)}]

NextPricing ==
  \/ \E input \in PricingInputs : CT_SelectRegister(1, input)
  \/ CT_SelectProduct(1)
  \/ CT_SelectDiscounts(1)
  \/ CT_SelectPaymentMethod(1)
  \/ CT_Persist(1)
  \/ Return(1)

SpecPricing == InitPricing /\ [][NextPricing]_vars

\* Catalog: one register is open; the prices and the discount rules are
\* edited, then comes a sale, and lookups before and after it.  Products at 6.10 (12.20 less 50%) and 5.80, rules of
\* 10% from 11.90, 5% from 6.10 and an inactive 50% from 1.00.
MaxCatalogSales == 1
MaxCatalogQuantity == 2

InitCatalog ==
  /\ today = 1
  /\ cash_registers = <<NewCashRegister(1, 113)>>
  /\ transactions = {}
  /\ transaction_items = {}
  /\ transactions_id_seq = 0
  /\ transaction_items_id_seq = 0
  /\ products = <<[product_id |-> 1, category_id |-> 1, original_price |-> 1220,
                   discount_percentage |-> 5000, price_after_discount |-> 610,
                   is_active |-> TRUE],
                  [product_id |-> 2, category_id |-> 1, original_price |-> 580,
                   discount_percentage |-> 0, price_after_discount |-> 580,
                   is_active |-> TRUE]>>
  /\ product_categories = {1}
  /\ payment_methods =
       <<[name |-> "Cash", transaction_charge_percentage |-> 0, is_active |-> TRUE],
         [name |-> "Card", transaction_charge_percentage |-> 250, is_active |-> TRUE]>>
  /\ automatic_discounts =
       <<[minimum_amount |-> 1190, discount_percentage |-> 1000, is_active |-> TRUE],
         [minimum_amount |-> 610, discount_percentage |-> 500, is_active |-> TRUE],
         [minimum_amount |-> 100, discount_percentage |-> 5000, is_active |-> FALSE]>>
  /\ pc = [p \in Procs |-> "idle"]
  /\ local = [p \in Procs |-> NoLocal]

CatalogInputs ==
  [items : UNION {[1..n -> [product_id : {1, 2}, quantity : 1..MaxCatalogQuantity]] :
                    n \in 1..MaxCartLines},
   payment_method_id : {1, 2},
   amount_received : {NULL}]

CatalogEditable == Idle(1) /\ transactions_id_seq = 0

NextCatalog ==
  \/ \E price \in {580, 600} : CatalogEditable /\ UpdateProductPrice(2, price)
  \/ \E a \in BOOLEAN : CatalogEditable /\ UpdateAutomaticDiscount(3, a)
  \/ CatalogEditable /\ DeleteAutomaticDiscount(1)
  \/ \E input \in CatalogInputs :
       transactions_id_seq < MaxCatalogSales /\ CT_SelectRegister(1, input)
  \/ CT_SelectProduct(1)
  \/ CT_SelectDiscounts(1)
  \/ CT_SelectPaymentMethod(1)
  \/ CT_Persist(1)
  \/ \E id \in 1..(MaxCatalogSales + 1) : GetTransactionById(1, id)
  \/ \E receiptId \in 1..(MaxReceipt + 1) : GetTransactionByReceiptId(1, receiptId)
  \/ Return(1)

SpecCatalog == InitCatalog /\ [][NextCatalog]_vars

\* Audit: sales of the product at 5.80 by cash or by card, the session
\* closed and opened again, and between the requests every edit of the
\* catalog.
NextAudit ==
  \/ \E price \in {580, 600} : Idle(1) /\ UpdateProductPrice(2, price)
  \/ Idle(1) /\ DeleteProduct(2)
  \/ Idle(1) /\ UpdateProduct(2, TRUE)
  \/ \E a \in BOOLEAN : Idle(1) /\ UpdatePaymentMethod(2, a)
  \/ \E a \in BOOLEAN : Idle(1) /\ UpdateAutomaticDiscount(3, a)
  \/ Idle(1) /\ DeleteAutomaticDiscount(1)
  \/ Request(1, {113}, 1..MaxRegisters, {1000}, ConcurrentInputs)

SpecAudit == InitCatalog /\ [][NextAudit]_vars

\* The product catalog: it starts empty with two categories. Slot 1 creates,
\* updates and deletes products one call after another; slot 2 deletes
\* categories while slot 1 runs.
InitProducts ==
  /\ today = 1
  /\ cash_registers = <<>>
  /\ transactions = {}
  /\ transaction_items = {}
  /\ transactions_id_seq = 0
  /\ transaction_items_id_seq = 0
  /\ products = <<>>
  /\ product_categories = {1, 2}
  /\ payment_methods =
       <<[name |-> "Cash", transaction_charge_percentage |-> 0, is_active |-> TRUE]>>
  /\ automatic_discounts = <<>>
  /\ pc = [p \in Procs |-> "idle"]
  /\ local = [p \in Procs |-> NoLocal]

\* createProduct inputs: 9.99 at 15%, the product_id generated or 'P005',
\* the category 1 or the unknown 3.
CreateProductInputs ==
  [product_id : {NULL, Some(5)},
   category_id : {1, 3},
   original_price : {999},
   discount_percentage : {1500}]

\* updateProduct inputs for product 1: any of category 2, price 10.50 and
\* discount 1%.
UpdateProductInputs ==
  [id : {1, MaxProducts + 1},
   category_id : {NULL, Some(2)},
   original_price : {NULL, Some(1050)},
   discount_percentage : {NULL, Some(100)}]

NextProducts ==
  \/ \E input \in CreateProductInputs : CreateProduct_SelectCategory(1, input)
  \/ CreateProduct_GenerateProductId(1)
  \/ CreateProduct_Insert(1)
  \/ \E input \in UpdateProductInputs : UpdateProduct_GetProductById(1, input)
  \/ UpdateProduct_SelectCategory(1)
  \/ UpdateProduct_Update(1)
  \/ Idle(1) /\ DeleteProduct(1)
  \/ \E id \in 1..3 : DeleteProductCategory_Select(2, id)
  \/ DeleteProductCategory_Count(2)
  \/ DeleteProductCategory_Delete(2)
  \/ \E p \in Procs : Return(p)

SpecProducts == InitProducts /\ [][NextProducts]_vars

\* References: one register is open; slot 1 sells the product at 10.00 by
\* cash or by card while the catalog is edited and slot 2 deletes payment
\* methods.
NextReferences ==
  \/ \E input \in ConcurrentInputs : CT_SelectRegister(1, input)
  \/ CT_SelectProduct(1)
  \/ CT_SelectDiscounts(1)
  \/ CT_SelectPaymentMethod(1)
  \/ CT_Persist(1)
  \/ DeleteProduct(2)
  \/ UpdateProduct(2, TRUE)
  \/ \E a \in BOOLEAN : UpdatePaymentMethod(2, a)
  \/ \E id \in 1..3 : DeletePaymentMethod_Select(2, id)
  \/ DeletePaymentMethod_Delete(2)
  \/ \E p \in Procs : Return(p)

SpecReferences == InitPricing /\ [][NextReferences]_vars

\* ================================================================ claims
RECURSIVE SumFinalTotal(_)
SumFinalTotal(rows) ==
  IF rows = {} THEN 0
  ELSE LET t == CHOOSE r \in rows : TRUE
       IN t.final_total + SumFinalTotal(rows \ {t})

IsCashMethod(id) ==
  id \in PaymentMethodIds /\ ToLowerCase(payment_methods[id].name) = "cash"

CashTransactionsOf(i) ==
  {t \in transactions : t.cash_register_id = i /\ IsCashMethod(t.payment_method_id)}

Quiescent == \A p \in Procs : pc[p] \notin CreateTransactionPcs

\* C1: whenever no createTransaction call is in flight, the cash_sales_total
\* of every session equals the sum of final_total over the committed cash
\* transactions that reference it (no update is lost).
C1_NoLostUpdates ==
  Quiescent =>
    \A i \in RegisterIds :
      cash_registers[i].cash_sales_total = SumFinalTotal(CashTransactionsOf(i))

\* C2: once a session has is_closed = true, no step changes its
\* cash_sales_total, expected_cash, actual_cash_counted, surplus_shortage or
\* closed_at.
C2_ClosedSessionImmutable ==
  [][\A i \in RegisterIds :
       cash_registers[i].is_closed =>
         /\ cash_registers'[i].cash_sales_total = cash_registers[i].cash_sales_total
         /\ cash_registers'[i].expected_cash = cash_registers[i].expected_cash
         /\ cash_registers'[i].actual_cash_counted = cash_registers[i].actual_cash_counted
         /\ cash_registers'[i].surplus_shortage = cash_registers[i].surplus_shortage
         /\ cash_registers'[i].closed_at = cash_registers[i].closed_at]_vars

\* C3: for each business date at most one session has is_closed = false,
\* also when openCashRegister calls run concurrently.
C3_OneOpenPerDate ==
  \A d \in Dates : Cardinality(OpenRegistersForDate(d)) <= 1

\* C4: at most one session is open system-wide, also when the date advances
\* between openCashRegister calls.
C4_OneOpenSystemWide ==
  Cardinality(ActiveCashRegisters) <= 1

\* C5: there is at most one session record for any calendar date.
C5_OneRecordPerDate ==
  \A d \in Dates :
    Cardinality({i \in RegisterIds : cash_registers[i].date = d}) <= 1

\* C6: every session satisfies
\* expected_cash = starting_capital + cash_sales_total.
C6_ExpectedCashDerivable ==
  \A i \in RegisterIds :
    cash_registers[i].expected_cash
      = cash_registers[i].starting_capital + cash_registers[i].cash_sales_total

\* the step in which slot p leaves createTransaction's db.transaction block
PersistStep(p) == pc[p] = "ct_persist" /\ pc'[p] = "done"

\* nothing of the block is visible
C7_RolledBack ==
  /\ transactions' = transactions
  /\ transaction_items' = transaction_items
  /\ cash_registers' = cash_registers

\* the transaction row, one item row per cart line and, for cash, the
\* session update (to the cent, each column being rounded on its own) are
\* visible together
C7_Committed(p) ==
  LET t == local'[p].transaction
      items == local[p].input.items
      register == local[p].activeCashRegister
      added == transaction_items' \ transaction_items
  IN /\ t \notin transactions
     /\ transactions' = transactions \cup {t}
     /\ transaction_items \subseteq transaction_items'
     /\ Cardinality(added) = Len(items)
     /\ \A it \in added : it.transaction_id = t.id
     /\ \A k \in 1..Len(items) :
          \E it \in added : /\ it.product_id = items[k].product_id
                            /\ it.quantity = items[k].quantity
     /\ IsCashMethod(t.payment_method_id) =>
          cash_registers'[register.id].cash_sales_total
            - (register.row.cash_sales_total + t.final_total) \in {-1, 0, 1}

\* C7: createTransaction's persistence is all-or-nothing: a call whose write
\* step fails leaves no transaction row, no item row and no session change;
\* a call that succeeds makes the transaction row, one item row per cart
\* line and (for cash) the session update visible in one step.
C7_AllOrNothing ==
  [][\A p \in Procs :
       PersistStep(p) =>
         IF local'[p].outcome = "ok" THEN C7_Committed(p) ELSE C7_RolledBack]_vars

\* a call failed after statements of its block had run (their item ids are
\* used up) while the tables hold an earlier sale
C7_FailedMidwayWitness ==
  \E p \in Procs :
    /\ pc[p] = "done"
    /\ local[p].op = "createTransaction"
    /\ local[p].outcome = "PersistenceFailure"
    /\ transactions # {}
    /\ transaction_items_id_seq > Cardinality(transaction_items)

PreconditionErrors ==
  {"NoActiveSession", "ProductNotFoundOrInactive", "PaymentMethodNotFoundOrInactive"}

\* C8: a createTransaction call that fails a precondition has changed
\* nothing: every step of the call up to the throw leaves the transactions,
\* the transaction items and every session as they were, and the
\* precondition errors are thrown only by those steps.
C8_PreconditionFailureMutatesNothing ==
  [][\A p \in Procs :
       /\ (/\ local'[p].op = "createTransaction"
           /\ pc[p] \in {"idle", "ct_products", "ct_discounts", "ct_payment"})
            => /\ cash_registers' = cash_registers
               /\ transactions' = transactions
               /\ transaction_items' = transaction_items
       /\ (/\ pc[p] # "done" /\ pc'[p] = "done"
           /\ local'[p].op = "createTransaction"
           /\ local'[p].outcome \in PreconditionErrors)
            => pc[p] # "ct_persist"]_vars

\* a call has failed on its payment method, the last precondition, while a
\* session is open and a sale is on record
C8_FailedCallWitness ==
  \E p \in Procs :
    /\ pc[p] = "done"
    /\ local[p].op = "createTransaction"
    /\ local[p].outcome = "PaymentMethodNotFoundOrInactive"
    /\ ActiveCashRegisters # {}
    /\ transactions # {}

ProductValid(id) == id \in ProductIds /\ products[id].is_active
PaymentMethodValid(id) == id \in PaymentMethodIds /\ payment_methods[id].is_active

\* the error of the first precondition, in the order session, products,
\* payment method, that the input fails in the current state
FirstFailure(input) ==
  IF ActiveCashRegisters = {} THEN "NoActiveSession"
  ELSE IF \E k \in 1..Len(input.items) : ~ProductValid(input.items[k].product_id)
    THEN "ProductNotFoundOrInactive"
  ELSE IF ~PaymentMethodValid(input.payment_method_id)
    THEN "PaymentMethodNotFoundOrInactive"
  ELSE "none"

\* C9: a createTransaction call reports the error of the first precondition
\* that fails, in the order open session, products, payment method; it gets
\* past the preconditions only when all three hold.
C9_ErrorsInOrder ==
  \A p \in Procs :
    (pc[p] = "done" /\ local[p].op = "createTransaction") =>
      IF FirstFailure(local[p].input) = "none"
        THEN local[p].outcome \in {"ok", "PersistenceFailure"}
        ELSE local[p].outcome = FirstFailure(local[p].input)

\* the product error was reported although the payment method is invalid too
C9_ProductErrorFirstWitness ==
  \E p \in Procs :
    /\ pc[p] = "done"
    /\ local[p].op = "createTransaction"
    /\ local[p].outcome = "ProductNotFoundOrInactive"
    /\ ~PaymentMethodValid(local[p].input.payment_method_id)

\* C10: every persisted and every returned transaction satisfies
\* final_total = subtotal - discount_amount + payment_charge to the cent.
C10_FinalTotalIdentity ==
  /\ \A t \in transactions :
       t.final_total = t.subtotal - t.discount_amount + t.payment_charge
  /\ \A p \in Procs :
       (pc[p] = "done" /\ local[p].op = "createTransaction" /\ local[p].outcome = "ok") =>
         local[p].transaction.final_total
           = local[p].transaction.subtotal - local[p].transaction.discount_amount
               + local[p].transaction.payment_charge

RECURSIVE CartTotal(_)
CartTotal(items) ==
  IF items = <<>> THEN 0
  ELSE items[1].quantity * products[items[1].product_id].price_after_discount
         + CartTotal(Tail(items))

\* C11: a successful createTransaction stores one item row per cart line
\* (also when a product is on several lines), each with unit_price equal to
\* the product's price_after_discount and total_price = unit_price *
\* quantity, and the transaction's subtotal is the sum over the cart lines of
\* quantity * price_after_discount.
C11_ItemsAndSubtotal ==
  [][\A p \in Procs :
       (PersistStep(p) /\ local'[p].outcome = "ok") =>
         LET t == local'[p].transaction
             items == local[p].input.items
             added == transaction_items' \ transaction_items
         IN /\ Cardinality(added) = Len(items)
            /\ \A k \in 1..Len(items) :
                 \E it \in added :
                   /\ it.id = transaction_items_id_seq + k
                   /\ it.transaction_id = t.id
                   /\ it.product_id = items[k].product_id
                   /\ it.quantity = items[k].quantity
                   /\ it.unit_price = products[items[k].product_id].price_after_discount
                   /\ it.total_price = it.unit_price * it.quantity
            /\ t \in transactions'
            /\ t.subtotal = CartTotal(items)]_vars

\* a sale of two lines of the product whose price_after_discount differs
\* from its original_price, one of them of quantity 2, is on record with its
\* two item rows
C11_RepeatedProductWitness ==
  \E p \in Procs :
    /\ pc[p] = "done"
    /\ local[p].op = "createTransaction"
    /\ local[p].outcome = "ok"
    /\ Len(local[p].input.items) = 2
    /\ \A k \in 1..2 : local[p].input.items[k].product_id = 1
    /\ local[p].input.items[1].quantity = 2
    /\ products[1].price_after_discount # products[1].original_price
    /\ Cardinality({it \in transaction_items :
                      it.transaction_id = local[p].transaction.id}) = 2

\* the rules that are active and whose threshold the stored subtotal reaches
QualifyingDiscounts(subtotal) ==
  {d \in DiscountIds : /\ automatic_discounts[d].is_active
                       /\ automatic_discounts[d].minimum_amount <= subtotal}

\* C12: the discount of a created transaction is its subtotal times the
\* highest discount_percentage among the rules that are active and have
\* minimum_amount <= subtotal (a threshold equal to the subtotal
\* qualifies), to the cent, and 0 when no rule qualifies.
C12_DiscountSelection ==
  [][\A p \in Procs :
       (PersistStep(p) /\ local'[p].outcome = "ok") =>
         LET t == local'[p].transaction
             qualifying == QualifyingDiscounts(t.subtotal)
         IN IF qualifying = {}
              THEN t.discount_amount = 0
              ELSE \E d \in qualifying :
                     /\ \A e \in qualifying :
                          automatic_discounts[e].discount_percentage
                            <= automatic_discounts[d].discount_percentage
                     /\ t.discount_amount \in
                          Numeric2(t.subtotal * automatic_discounts[d].discount_percentage)]_vars

\* a >= 0 over b > 0, rounded half up to an integer
RoundHalfUp(a, b) == (2 * a + b) \div (2 * b)

\* C13: the payment_charge of every created transaction is (subtotal -
\* discount_amount) * charge percentage / 100 rounded half up to the cent;
\* it is never negative and it is 0 when the charge percentage is 0.
\* (Where a discount applies the stored discount_amount is itself rounded,
\* so the charge is compared within a cent; without a discount exactly.)
C13_SurchargeHalfUp ==
  [][\A p \in Procs :
       (PersistStep(p) /\ local'[p].outcome = "ok") =>
         LET t == local'[p].transaction
             chargePercentage ==
               payment_methods[t.payment_method_id].transaction_charge_percentage
             halfUp == RoundHalfUp((t.subtotal - t.discount_amount) * chargePercentage,
                                   10000)
         IN /\ t.discount_amount = 0 => t.payment_charge = halfUp
            /\ t.payment_charge - halfUp \in {-1, 0, 1}
            /\ t.payment_charge >= 0
            /\ chargePercentage = 0 => t.payment_charge = 0]_vars

\* C14: a stored transaction has a change_amount exactly when it has an
\* amount_received; the change is then max(0, amount_received - final_total)
\* and never negative.
C14_ChangeAmount ==
  \A t \in transactions :
    /\ IsNull(t.change_amount) <=> IsNull(t.amount_received)
    /\ ~IsNull(t.change_amount) =>
         /\ t.change_amount[1] = Max(0, t.amount_received[1] - t.final_total)
         /\ t.change_amount[1] >= 0

\* C15: a stored transaction has an amount_received or a change_amount only
\* if its payment method is the cash method.
C15_ReceivedOnlyForCash ==
  \A t \in transactions :
    (~IsNull(t.amount_received) \/ ~IsNull(t.change_amount)) =>
      IsCashMethod(t.payment_method_id)

\* C16: a successful createTransaction by cash raises cash_sales_total and
\* expected_cash of the session it read by exactly final_total and changes
\* nothing else of any session; by another method it changes no session at
\* all; it never adds a session.
C16_EffectOnSession ==
  [][\A p \in Procs :
       (PersistStep(p) /\ local'[p].outcome = "ok") =>
         LET t == local'[p].transaction
             id == local[p].activeCashRegister.id
         IN IF IsCashMethod(t.payment_method_id)
              THEN cash_registers' =
                     [cash_registers EXCEPT
                        ![id].cash_sales_total = @ + t.final_total,
                        ![id].expected_cash = @ + t.final_total]
              ELSE cash_registers' = cash_registers]_vars

\* C17: a committed transaction row and its item rows are never changed or
\* removed by any later step (catalog edits, opening and closing of
\* sessions, further sales): every row stays in its table as it is, and no
\* other row takes its id.
C17_AuditRecordsImmutable ==
  [][/\ \A t \in transactions :
          /\ t \in transactions'
          /\ \A u \in transactions' : u.id = t.id => u = t
     /\ \A it \in transaction_items :
          /\ it \in transaction_items'
          /\ \A u \in transaction_items' : u.id = it.id => u = it]_vars

\* a sale is on record at a unit price the product no longer has, the
\* product has been deleted, the 10% rule deleted, the session of the sale
\* closed, and a later sale is on record as well
C17_EditedAfterSaleWitness ==
  /\ Cardinality(transactions) = 2
  /\ 1 \notin DiscountIds
  /\ \E it \in transaction_items, t \in transactions :
       /\ it.transaction_id = t.id
       /\ ~products[it.product_id].is_active
       /\ it.unit_price # products[it.product_id].price_after_discount
       /\ cash_registers[t.cash_register_id].is_closed

\* C18: no two stored transactions have the same receipt_id, whatever the
\* interleaving of createTransaction calls and whatever identifiers they
\* generate; a call whose identifier is taken fails and persists nothing,
\* and a call commits only under an identifier no transaction has.
C18_ReceiptIdUnique ==
  [][/\ \A t, u \in transactions' : t.receipt_id = u.receipt_id => t = u
     /\ \A p \in Procs :
          PersistStep(p) =>
            IF local'[p].outcome = "ok"
              THEN ~ReceiptIdTaken(local'[p].transaction.receipt_id)
              ELSE local'[p].error = "duplicate key: receipt_id" => C7_RolledBack]_vars

\* two calls generated the same identifier: one committed, the other failed
\* on the unique index, both still holding their responses
C18_CollisionWitness ==
  \E p, q \in Procs :
    /\ pc[p] = "done" /\ local[p].op = "createTransaction"
    /\ local[p].outcome = "PersistenceFailure"
    /\ local[p].error = "duplicate key: receipt_id"
    /\ pc[q] = "done" /\ local[q].op = "createTransaction"
    /\ local[q].outcome = "ok"
    /\ local[q].transaction.receipt_id = local[p].receiptId
    /\ Cardinality(transactions) = 1

\* the item rows stored for transaction id
ItemsOf(id) == {it \in transaction_items : it.transaction_id = id}

\* the lookup result for transaction t: t itself with its stored items
Found(t) == {Some([transaction |-> t, items |-> ItemsOf(t.id)])}

\* C19: after a successful createTransaction returning T, getTransactionById
\* (T.id) and getTransactionByReceiptId(T.receipt_id) both return T with its
\* amounts as returned and the items created, one per cart line; a lookup of
\* an id or receipt id that no transaction has returns null and no error,
\* and a lookup of one that a transaction has returns that transaction.
C19_RoundTrip ==
  \A p \in Procs :
    /\ (pc[p] = "done" /\ local[p].op = "createTransaction" /\ local[p].outcome = "ok") =>
         LET T == local[p].transaction
             items == local[p].input.items
         IN /\ GetTransactionByIdResult(T.id) = Found(T)
            /\ GetTransactionByReceiptIdResult(T.receipt_id) = Found(T)
            /\ Cardinality(ItemsOf(T.id)) = Len(items)
            /\ \A k \in 1..Len(items) :
                 \E it \in ItemsOf(T.id) : /\ it.product_id = items[k].product_id
                                           /\ it.quantity = items[k].quantity
    /\ (pc[p] = "done" /\ local[p].op = "getTransactionById") =>
         /\ local[p].outcome = "ok"
         /\ IF \E t \in transactions : t.id = local[p].id
              THEN \E t \in transactions :
                     t.id = local[p].id /\ {local[p].result} = Found(t)
              ELSE IsNull(local[p].result)
    /\ (pc[p] = "done" /\ local[p].op = "getTransactionByReceiptId") =>
         /\ local[p].outcome = "ok"
         /\ IF \E t \in transactions : t.receipt_id = local[p].receiptId
              THEN \E t \in transactions :
                     t.receipt_id = local[p].receiptId /\ {local[p].result} = Found(t)
              ELSE IsNull(local[p].result)

\* a lookup by receipt id has returned a sale of two lines with a discount
C19_LookupWitness ==
  \E p \in Procs :
    /\ pc[p] = "done"
    /\ local[p].op = "getTransactionByReceiptId"
    /\ ~IsNull(local[p].result)
    /\ Cardinality(local[p].result[1].items) = 2
    /\ local[p].result[1].transaction.discount_amount > 0

\* the step in which slot p leaves closeCashRegister's update
CloseStep(p) == pc[p] = "close_update" /\ pc'[p] = "done"

\* C20: closeCashRegister sets actual_cash_counted to the counted amount,
\* surplus_shortage to counted - (starting_capital + cash_sales_total) of
\* the session, is_closed to true and closed_at to a timestamp, and leaves
\* the session's other fields and every other session unchanged.
C20_CloseEffect ==
  [][\A p \in Procs :
       CloseStep(p) =>
         LET id == local[p].id
             counted == local[p].actual_cash_counted
             row == cash_registers[id]
         IN /\ ~IsNull(cash_registers'[id].closed_at)
            /\ cash_registers' =
                 [cash_registers EXCEPT ![id] =
                    [row EXCEPT
                       !.actual_cash_counted = Some(counted),
                       !.surplus_shortage =
                          Some(counted - (row.starting_capital + row.cash_sales_total)),
                       !.is_closed = TRUE,
                       !.closed_at = cash_registers'[id].closed_at]]]_vars

\* the step in which slot p starts handler op (its first query)
Starts(p, op) == pc[p] = "idle" /\ pc'[p] # "idle" /\ local'[p].op = op

\* C21: openCashRegister fails with 'already open for today' when a session
\* of today's date is open, and otherwise gets past its check;
\* closeCashRegister fails with 'not found' on an id that no session has and
\* with 'already closed' on a closed session, and otherwise gets past its
\* checks; a failed call changes no session and adds none.
C21_LifecycleErrors ==
  [][\A p \in Procs :
       /\ Starts(p, "open") =>
            IF \E i \in RegisterIds :
                 cash_registers[i].date = today /\ ~cash_registers[i].is_closed
              THEN /\ pc'[p] = "done" /\ local'[p].outcome = "AlreadyOpenToday"
                   /\ cash_registers' = cash_registers
              ELSE pc'[p] = "open_insert"
       /\ Starts(p, "close") =>
            IF \A i \in RegisterIds : i # local'[p].id
              THEN /\ pc'[p] = "done" /\ local'[p].outcome = "SessionNotFound"
                   /\ cash_registers' = cash_registers
              ELSE IF cash_registers[local'[p].id].is_closed
                THEN /\ pc'[p] = "done" /\ local'[p].outcome = "AlreadyClosed"
                     /\ cash_registers' = cash_registers
                ELSE pc'[p] = "close_update"
       /\ (/\ pc[p] # "done" /\ pc'[p] = "done"
           /\ local'[p].outcome \in {"AlreadyOpenToday", "AlreadyClosed", "SessionNotFound"})
            => cash_registers' = cash_registers]_vars

\* a close of a closed session has failed while another session is open,
\* and the closed session still carries the figures of its first close
C21_AlreadyClosedWitness ==
  \E p \in Procs :
    /\ pc[p] = "done"
    /\ local[p].op = "close"
    /\ local[p].outcome = "AlreadyClosed"
    /\ cash_registers[local[p].id].is_closed
    /\ ~IsNull(cash_registers[local[p].id].surplus_shortage)
    /\ ActiveCashRegisters # {}

\* the step in which slot p leaves createProduct's insert
CreateProductInsertStep(p) == pc[p] = "cp_insert" /\ pc'[p] = "done"

\* C22: in a catalog built from empty by createProduct calls without a
\* product_id (its k-th product holds 'P00k'), the next such call succeeds
\* and receives the next id of the sequence, greater than every id issued
\* before and equal to none of them.
C22_SequentialProductIds ==
  [][\A p \in Procs :
       (/\ CreateProductInsertStep(p)
        /\ IsNull(local[p].input.product_id)
        /\ \A i \in ProductIds : products[i].product_id = i)
       => /\ local'[p].outcome = "ok"
          /\ Len(products') = Len(products) + 1
          /\ products'[Len(products')].product_id = Len(products) + 1
          /\ \A i \in ProductIds :
               products'[Len(products')].product_id > products[i].product_id]_vars

\* price_after_discount is original_price * (1 - discount_percentage / 100)
\* exactly
ExactPrice(row) ==
  row.price_after_discount * 10000 =
    row.original_price * (10000 - row.discount_percentage)

\* price_after_discount is original_price * (1 - discount_percentage / 100)
\* rounded to the cent: it lies within half a cent of it
RoundedPrice(row) ==
  LET d == row.price_after_discount * 10000
             - row.original_price * (10000 - row.discount_percentage)
  IN -5000 <= d /\ d <= 5000

\* the step in which slot p leaves updateProduct's update
UpdateProductStep(p) == pc[p] = "up_update" /\ pc'[p] = "done"

C24_CategoryReferences ==
  \A i \in ProductIds : products[i].category_id \in product_categories

\* C25: whatever createTransaction and deletePaymentMethod calls have run,
\* one after another or interleaved, every stored transaction's
\* payment_method_id is the id of an existing payment method.
C25_PaymentMethodReferences ==
  \A t \in transactions : t.payment_method_id \in PaymentMethodIds

\* C26: the session a committed transaction references is open at the
\* moment createTransaction commits, however the call interleaves with
\* closeCashRegister.
C26_OpenAtCommit ==
  [][\A p \in Procs :
       (PersistStep(p) /\ local'[p].outcome = "ok") =>
         LET id == local'[p].transaction.cash_register_id
         IN /\ ~cash_registers[id].is_closed
            /\ ~cash_registers'[id].is_closed]_vars

\* C27: a closeCashRegister call that succeeds finds its session open, so of
\* the calls on one session, interleaved or not, at most one succeeds and
\* the stored closing figures are those of that call.
C27_ClosedAtMostOnce ==
  [][\A p \in Procs :
       CloseStep(p) =>
         /\ ~cash_registers[local[p].id].is_closed
         /\ local'[p].outcome = "ok"]_vars

\* C28: at the moment createTransaction commits, every product on the
\* transaction's items is active and its payment method is active, however
\* the call interleaves with deleteProduct, updateProduct and
\* updatePaymentMethod.
C28_ValidAtCommit ==
  [][\A p \in Procs :
       (PersistStep(p) /\ local'[p].outcome = "ok") =>
         /\ \A k \in DOMAIN local[p].input.items :
              ProductValid(local[p].input.items[k].product_id)
         /\ PaymentMethodValid(local[p].input.payment_method_id)]_vars

\* C29: a session starts with is_closed = false, and once is_closed is true
\* no step sets it back to false.
C29_ClosedIsMonotone ==
  [][/\ \A i \in RegisterIds :
          /\ i \in DOMAIN cash_registers'
          /\ cash_registers[i].is_closed => cash_registers'[i].is_closed
     /\ \A i \in DOMAIN cash_registers' \ RegisterIds :
          ~cash_registers'[i].is_closed]_vars

\* two closeCashRegister calls on the only session have both run their
\* update: the second one wrote a session that was closed already
C29_WrittenAfterCloseWitness ==
  /\ Len(cash_registers) = 1
  /\ cash_registers[1].is_closed
  /\ \A p \in Procs :
       pc[p] = "done" /\ local[p].op = "close" /\ local[p].outcome = "ok"

\* C30: in every state the dashboard's cash_register_status.is_open is true
\* exactly when getCurrentCashRegister returns a session, and exactly when
\* createTransaction passes its active-register check.
C30_OpenStatusAgrees ==
  /\ CashRegisterStatus.is_open <=> NULL \notin GetCurrentCashRegisterResult
  /\ CashRegisterStatus.is_open <=> ActiveCashRegisters # {}

====
